---- MODULE Spec2Model ----
(***************************************************************************)
(* The two controllers of src/src/App.tsx:                                 *)
(*   - App: the hash state, the hashchange listener and the scroll effect; *)
(*   - ContactForm: the field state, the derived emailOk / canSubmit and   *)
(*     the asynchronous onSubmit handler.                                  *)
(* Text values are sequences of one-character strings, so that the regular *)
(* expression of the form can be run on them character by character.       *)
(* Every handler is one action and ends with the re-render it causes: the  *)
(* page runs handlers one at a time, to completion.                        *)
(***************************************************************************)
EXTENDS Naturals, Sequences, FiniteSets

VARIABLES
    location,    \* window.location.hash, the page's fragment (environment)
    hash,        \* App: const [hash, setHash] = useState(...)
    mounted,     \* App: the mount effects have run (listener registered)
    scrollLog,   \* the scrollIntoView requests issued so far, oldest first
    state,       \* ContactForm: const [state, setState] = useState({...})
    status,      \* ContactForm: const [status, setStatus] = useState("idle")
    emailOk,     \* ContactForm: emailOk of the last render
    canSubmit,   \* ContactForm: truthiness of canSubmit of the last render
    inflight,    \* onSubmit calls suspended at the await, each with the
                 \* `state` its closure captured
    logged,      \* the payload of the last console.log, <<>> when none
    submitted,   \* history: the fields when the last submission started
    edited,      \* history: a field changed since the last submission started
    notifications, \* history: the hashchange notifications handled so far
    event        \* history: the handler that ran last

navVars  == <<location, hash, mounted, scrollLog, notifications>>
formVars == <<state, status, emailOk, canSubmit, inflight, logged, submitted, edited>>
vars     == <<location, hash, mounted, scrollLog, state, status, emailOk,
              canSubmit, inflight, logged, submitted, edited, notifications, event>>

----------------------------------------------------------------------------
(* Bounds and input sets *)

MaxEmailLen == 6

MaxNavEvents == 3

\* "\n" stands for the line terminators, which `.` of a regular expression
\* does not match
LineTerminators == {"\n"}

Alphabet == {"a", ".", "@", "\n"}

\* the four documented examples, the placeholder address and the empty field
EmailSamples ==
    { <<>>,
      <<"a", "@", "b", ".", "c">>,
      <<"a", "@", "b">>,
      <<"a", "b", "c">>,
      <<"a", "@", ".", "c">>,
      <<".", "@", "b", ".", "c">> }

NameSamples == { <<>>, <<"J", "a", "n", "e">> }

OrgSamples == { <<>>, <<"H">> }

MessageSamples == { <<>>, <<"N", "e", "e", "d">> }

Fragments == {"", "#home", "#about", "#contact", "#team", "#pricing"}

----------------------------------------------------------------------------
(* ContactForm: the derived values of a render *)

\* `.` of a JavaScript regular expression: any character but a line terminator
\* variant: `.` narrowed to [^.]
AnyCharStrict(c) == c \notin LineTerminators /\ c # "."

AnyChar(c) == c \notin LineTerminators

\* variant: /.+@.+/, the dot and what follows left out
EmailReNoDot ==
    << [kind |-> "plus", ch |-> ""],
       [kind |-> "lit",  ch |-> "@"],
       [kind |-> "plus", ch |-> ""] >>

\* /.+@.+\..+/ as its sequence of terms
EmailRe ==
    << [kind |-> "plus", ch |-> ""],
       [kind |-> "lit",  ch |-> "@"],
       [kind |-> "plus", ch |-> ""],
       [kind |-> "lit",  ch |-> "."],
       [kind |-> "plus", ch |-> ""] >>

\* terms k.. of re match a substring of s that starts at position i
RECURSIVE MatchFrom(_, _, _, _)
MatchFrom(re, k, s, i) ==
    IF k > Len(re) THEN TRUE
    ELSE IF re[k].kind = "lit"
         THEN i <= Len(s) /\ s[i] = re[k].ch /\ MatchFrom(re, k + 1, s, i + 1)
         ELSE \E n \in 1..(Len(s) - i + 1) :
                  /\ \A j \in i..(i + n - 1) : AnyChar(s[j])
                  /\ MatchFrom(re, k + 1, s, i + n)

\* variant: the expression anchored at the start, as with ^
RegExpTestFromStart(re, s) == s # <<>> /\ MatchFrom(re, 1, s, 1)

\* RegExp.prototype.test without anchors: a match may start anywhere
RegExpTest(re, s) == \E i \in 1..Len(s) : MatchFrom(re, 1, s, i)

EmailOkOf(st) == RegExpTest(EmailRe, st.email)

\* a string is truthy iff it is not empty
Truthy(s) == s # <<>>

\* variant: the status left out of the conjunction
CanSubmitNoStatus(st, ok, stat) == Truthy(st.name) /\ ok /\ Truthy(st.message)

\* state.name && emailOk && state.message && status !== "sending", as the
\* truthiness `if (!canSubmit)` and `disabled={!canSubmit}` read
CanSubmitOf(st, ok, stat) ==
    Truthy(st.name) /\ ok /\ Truthy(st.message) /\ stat # "sending"

\* the render that follows a handler: the derived values of the new state
Render(st, stat) ==
    /\ emailOk' = EmailOkOf(st)
    /\ canSubmit' = CanSubmitOf(st, EmailOkOf(st), stat)

EmptyState == [name |-> <<>>, email |-> <<>>, org |-> <<>>, message |-> <<>>]

----------------------------------------------------------------------------
(* Initial state: the page has loaded with some fragment, nothing mounted *)

Init ==
    /\ location \in Fragments
    /\ hash = location
    /\ mounted = FALSE
    /\ scrollLog = <<>>
    /\ notifications = 0
    /\ state = EmptyState
    /\ status = "idle"
    /\ emailOk = EmailOkOf(EmptyState)
    /\ canSubmit = CanSubmitOf(EmptyState, EmailOkOf(EmptyState), "idle")
    /\ inflight = <<>>
    /\ logged = <<>>
    /\ submitted = <<>>
    /\ edited = FALSE
    /\ event = "load"

----------------------------------------------------------------------------
(* ContactForm: the handlers *)

\* variant: the spread of the rendered state left out
WithFieldNoSpread(st, field, v) == [EmptyState EXCEPT ![field] = v]

\* {...state, [field]: e.target.value}
WithField(st, field, v) == [st EXCEPT ![field] = v]

\* an onChange handler: setState of the spread of the rendered state with one
\* field replaced, in whatever status the form is
onChange(field, v) ==
    /\ v # state[field]
    /\ state' = WithField(state, field, v)
    /\ edited' = (edited \/ status = "sending")
    /\ Render(state', status)
    /\ event' = "change"
    /\ UNCHANGED <<status, inflight, logged, submitted>>
    /\ UNCHANGED navVars

onChangeName == \E v \in NameSamples : onChange("name", v)

onChangeEmail == \E v \in EmailSamples : onChange("email", v)

onChangeOrg == \E v \in OrgSamples : onChange("org", v)

onChangeMessage == \E v \in MessageSamples : onChange("message", v)

\* variant: the early return left out
GuardMissing(c) == TRUE

\* if (!canSubmit) return;  the handler goes on iff the rendered value is truthy
PassesGuard(c) == c

\* variant: a promise that never settles
AwaitDropped(q, st) == q

\* await new Promise((r) => setTimeout(r, 800)): the call suspends, holding the
\* `state` of the render it was created in
Await(q, st) == Append(q, st)

\* onSubmit up to its await
onSubmit ==
    /\ event' = "submit"
    /\ IF ~PassesGuard(canSubmit)
       THEN UNCHANGED formVars
       ELSE /\ status' = "sending"
            /\ inflight' = Await(inflight, state)
            /\ submitted' = <<state>>
            /\ edited' = FALSE
            /\ Render(state, "sending")
            /\ UNCHANGED <<state, logged>>
    /\ UNCHANGED navVars

\* variant: the form reset to idle after a submission
StatusOnResolveIdle == "idle"

\* setStatus("success")
StatusOnResolve == "success"

\* variant: the fields not cleared on success
FieldsKept(st) == st

\* setState({ name: "", email: "", org: "", message: "" })
FieldsOnResolve(st) == EmptyState

\* the timer fires and the promise resolves: onSubmit resumes after its await
onSubmitResume ==
    /\ inflight # <<>>
    /\ logged' = <<Head(inflight)>>
    /\ status' = StatusOnResolve
    /\ state' = FieldsOnResolve(state)
    /\ inflight' = Tail(inflight)
    /\ Render(state', status')
    /\ event' = "resolve"
    /\ UNCHANGED <<submitted, edited>>
    /\ UNCHANGED navVars

\* setStatus("error")
StatusOnFault == "error"

\* variant: the fields cleared in the catch block too
FieldsCleared(st) == EmptyState

\* the catch block sets no field
FieldsOnFault(st) == st

\* the awaited operation rejects: onSubmit resumes in its catch block.  The
\* shipped promise never rejects; this is the handler with a submission
\* operation that can fault.
onSubmitCatch ==
    /\ inflight # <<>>
    /\ status' = StatusOnFault
    /\ state' = FieldsOnFault(state)
    /\ inflight' = Tail(inflight)
    /\ Render(state', status')
    /\ event' = "reject"
    /\ UNCHANGED <<logged, submitted, edited>>
    /\ UNCHANGED navVars

----------------------------------------------------------------------------
(* App: the hash state and its two effects *)

\* the keys of `map`
KnownHashes == {"#home", "#about", "#contact"}

\* map[hash].current: the section each ref is attached to
SectionOf(h) ==
    CASE h = "#home" -> "home"
      [] h = "#about" -> "about"
      [] h = "#contact" -> "contact"

\* the effect on [hash]: scrollIntoView on the target, if there is one
ScrollEffect(h, log) == IF h \in KnownHashes THEN Append(log, SectionOf(h)) ELSE log

\* the effects of the first render: the listener is registered and the scroll
\* effect runs on the initial hash
Mount ==
    /\ ~mounted
    /\ mounted' = TRUE
    /\ scrollLog' = ScrollEffect(hash, scrollLog)
    /\ event' = "mount"
    /\ UNCHANGED <<location, hash, notifications>>
    /\ UNCHANGED formVars

\* window.location.hash || "#home"
HashOrHome(f) == IF f = "" THEN "#home" ELSE f

\* the fragment changes to f and the listener runs: setHash(...), and the
\* scroll effect runs iff the hash state changed
onHash ==
    \E f \in Fragments :
        /\ mounted
        /\ notifications < MaxNavEvents
        /\ f # location
        /\ location' = f
        /\ notifications' = notifications + 1
        /\ hash' = HashOrHome(f)
        /\ scrollLog' = IF hash' # hash THEN ScrollEffect(hash', scrollLog)
                                        ELSE scrollLog
        /\ event' = "hashchange"
        /\ UNCHANGED mounted
        /\ UNCHANGED formVars

----------------------------------------------------------------------------
(* Specifications *)

\* the contact form as shipped: the mocked operation always resolves
Next ==
    \/ onChangeName
    \/ onChangeEmail
    \/ onChangeOrg
    \/ onChangeMessage
    \/ onSubmit
    \/ onSubmitResume

Spec == Init /\ [][Next]_vars

\* the timer of the pending submission fires
FairSpec == Spec /\ WF_vars(onSubmitResume)

\* the contact form with a submission operation that may fault
NextFault ==
    \/ Next
    \/ onSubmitCatch

SpecFault == Init /\ [][NextFault]_vars

\* the navigation controller
NextNav ==
    \/ Mount
    \/ onHash

SpecNav == Init /\ [][NextNav]_vars

\* the email field alone, over every string of the alphabet
Keystrokes(s) ==
    {Append(s, c) : c \in Alphabet}
        \cup (IF s = <<>> THEN {} ELSE {SubSeq(s, 1, Len(s) - 1)})

\* typing in the email field: a character more or the last one deleted
onChangeEmailAny ==
    \E v \in Keystrokes(state.email) :
        /\ Len(v) <= MaxEmailLen
        /\ onChange("email", v)

NextEmail == onChangeEmailAny

SpecEmail == Init /\ [][NextEmail]_vars

----------------------------------------------------------------------------
(* Properties *)

\* C1: a submit while canSubmit is false changes nothing of the form (no
\* field, not the status, no new suspended call), and at most one submission
\* is in flight in every reachable state.
C1_IneligibleSubmitNoEffect ==
    /\ [][(event' = "submit" /\ ~canSubmit) => UNCHANGED formVars]_vars
    /\ [](Len(inflight) <= 1)

\* a submit arrived after an edit made while the submission was in flight
C1_Witness ==
    /\ event = "submit"
    /\ status = "sending"
    /\ edited
    /\ Len(inflight) = 1

\* C2: canSubmit is false iff name is empty, or message is empty, or the
\* email fails the shape check, or the status is sending; the organization
\* plays no part.
C2_Eligibility ==
    /\ emailOk = EmailOkOf(state)
    /\ canSubmit = ~( \/ state.name = <<>>
                      \/ state.message = <<>>
                      \/ ~emailOk
                      \/ status = "sending" )

\* eligible again in status error, with no organization given
C2_Witness == status = "error" /\ canSubmit /\ state.org = <<>>

\* C3: an eligible submit sets the status to sending; the resumption of the
\* handler takes it from sending to success and leaves every field empty,
\* whatever the fields were at that moment.
C3_SuccessClearsFields ==
    [][ /\ (event' = "submit" /\ canSubmit) => status' = "sending"
        /\ (event' = "resolve") =>
               (status = "sending" /\ status' = "success" /\ state' = EmptyState)
      ]_vars

\* success reached after the fields were edited while sending
C3_Witness ==
    /\ event = "resolve"
    /\ status = "success"
    /\ edited
    /\ logged # <<>>
    /\ state = EmptyState

\* C4: a fault takes the status from sending to error and changes no field;
\* with no edit made while sending the fields are those of the submit.
C4_ErrorKeepsFields ==
    /\ [][(event' = "reject") =>
              (status = "sending" /\ status' = "error" /\ state' = state)]_vars
    /\ []((event = "reject" /\ ~edited) => state = Head(submitted))

C4_Witness ==
    /\ event = "reject"
    /\ status = "error"
    /\ ~edited
    /\ state = Head(submitted)
    /\ state # EmptyState

\* C5 as claimed: the status changes only idle -> sending, sending -> success
\* or sending -> error.
C5_Claimed ==
    [][status' # status =>
           <<status, status'>> \in { <<"idle", "sending">>,
                                     <<"sending", "success">>,
                                     <<"sending", "error">> }]_vars

\* C5 as amended: sending is entered from idle, success or error; sending is
\* left to success or error; no step sets the status to idle.
C5_Transitions ==
    [][status' # status =>
           <<status, status'>> \in { <<"idle", "sending">>,
                                     <<"success", "sending">>,
                                     <<"error", "sending">>,
                                     <<"sending", "success">>,
                                     <<"sending", "error">> }]_vars

\* sending again after an earlier submission succeeded
C5_Witness == status = "sending" /\ logged # <<>> /\ event = "submit"

\* C6: a pending submission always ends, and with the shipped operation it
\* ends in success: sending leads to success and error is never reached.
C6_SendingResolves ==
    /\ (status = "sending") ~> (status = "success")
    /\ [](status # "error")

\* a submission that succeeded although the user edited while it was pending
C6_Witness ==
    /\ status = "success"
    /\ edited
    /\ inflight = <<>>
    /\ logged = submitted

\* the section the claimed controller scrolls to for a fragment
ClaimedSection(f) == IF f = "" THEN "home" ELSE SectionOf(f)

\* C7 as claimed: startup and every notification append exactly one scroll
\* request, to the section of the current fragment, when the fragment is "",
\* #home, #about or #contact, and none otherwise.
C7_Claimed ==
    [][(mounted' # mounted \/ notifications' # notifications) =>
           scrollLog' = IF location' \in KnownHashes \cup {""}
                        THEN Append(scrollLog, ClaimedSection(location'))
                        ELSE scrollLog]_vars

NoLineTerminator(s) == \A j \in 1..Len(s) : s[j] \notin LineTerminators

\* the shape as claimed: somewhere in s, one or more characters other than
\* "." and "@", then "@", one or more characters, ".", one or more characters
ClaimedShape(s) ==
    \E a, p, q, e \in 1..Len(s) :
        /\ a < p /\ p + 1 < q /\ q < e
        /\ \A j \in a..(p - 1) : s[j] \notin {".", "@"}
        /\ s[p] = "@"
        /\ s[q] = "."

\* C8 as claimed, on the strings of a letter, "." and "@"
C8_Claimed ==
    NoLineTerminator(state.email) => (emailOk <=> ClaimedShape(state.email))

\* the shape the check has: an "@" and a later "." with a character before
\* the "@", at least one between the two and one after the ".", none of these
\* a line terminator
AmendedShape(s) ==
    \E p, q \in 1..Len(s) :
        /\ s[p] = "@" /\ s[q] = "."
        /\ 2 <= p /\ p + 2 <= q /\ q < Len(s)
        /\ s[p - 1] \notin LineTerminators
        /\ \A j \in (p + 1)..(q - 1) : s[j] \notin LineTerminators
        /\ s[q + 1] \notin LineTerminators

\* C8 as amended: the check accepts exactly the strings of the amended shape
C8_Shape == emailOk <=> AmendedShape(state.email)

\* accepted although a "." stands right before the "@"
C8_Witness == state.email = <<".", "@", "a", ".", "a">> /\ emailOk

\* C9 as claimed: "a@b.c" passes, "a@b" fails, "abc" fails, "a@.c" passes.
C9_Claimed ==
    /\ state.email = <<"a", "@", "b", ".", "c">> => emailOk
    /\ state.email = <<"a", "@", "b">> => ~emailOk
    /\ state.email = <<"a", "b", "c">> => ~emailOk
    /\ state.email = <<"a", "@", ".", "c">> => emailOk

\* C9 as amended: "a@b.c" passes; "a@b", "abc" and "a@.c" fail.
C9_Examples ==
    /\ state.email = <<"a", "@", "b", ".", "c">> => emailOk
    /\ state.email = <<"a", "@", "b">> => ~emailOk
    /\ state.email = <<"a", "b", "c">> => ~emailOk
    /\ state.email = <<"a", "@", ".", "c">> => ~emailOk

\* "a@.c" typed into the field and rejected
C9_Witness == state.email = <<"a", "@", ".", "c">> /\ ~emailOk /\ event = "change"

\* C10 as claimed: the stored fragment is always one of the known three.
C10_Claimed == hash \in KnownHashes

FieldNames == {"name", "email", "org", "message"}

\* C11: a field can be edited in every status, and an edit changes exactly
\* one field: the status, the other three fields and the pending submission
\* are as before.
C11_EditFrame ==
    /\ [](ENABLED onChangeName /\ ENABLED onChangeEmail
             /\ ENABLED onChangeOrg /\ ENABLED onChangeMessage)
    /\ [][(event' = "change") =>
              /\ status' = status
              /\ inflight' = inflight
              /\ Cardinality({f \in FieldNames : state'[f] # state[f]}) = 1]_vars

\* a field edited in status error, the three others as submitted
C11_Witness ==
    /\ event = "change"
    /\ status = "error"
    /\ Cardinality({f \in FieldNames : state[f] # Head(submitted)[f]}) = 1

====
